---- MODULE Spec2Model ----
(***************************************************************************)
(* Model of the concurrent probing core of Spotter: the port scanner       *)
(* (modules/port_scanner.py), the subdomain brute force                    *)
(* (modules/subdomain_discovery.py) and the service identifier             *)
(* (modules/service_detector.py).                                          *)
(*                                                                         *)
(* Text is modelled as a sequence of one-character strings, so that        *)
(* split, int(), lower() and the substring test are computed, not assumed. *)
(***************************************************************************)
EXTENDS Integers, Sequences, FiniteSets, TLC

VARIABLES
    op,             \* which operation this run performs
    ports,          \* the port specification string given to scan()
    scan_type,      \* "syn" | "tcp" | "udp"
    pc,             \* position of the main thread
    exc,            \* exception propagating in the main thread, "none" if none
    scan_method,    \* results['scan_method']
    backend,        \* which scanner ran: "nmap" | "custom", "" before the branch
    tasks,          \* the arguments of the calls to submit, in order: port_list
                    \* for the port scan, the words for the brute force
    wordlist,       \* the lines of the wordlist file given to discover()
    nsub,           \* how many tasks the main thread has submitted
    fstate,         \* per task: "queued" | "running" | "finished"
    net,            \* per task: what the network did for its probe
    fres,           \* per task: the value its future holds, <<>> for None
    fexc,           \* per task: the exception its future holds, "none" if none
    consumed,       \* per task: how many times the main thread took its outcome
    fsock,          \* per task: the socket of its probe: "none" | "open" | "closed"
    open_ports,     \* the list the collecting loop appends to
    found_subdomains, \* the set the brute force adds to
    interrupted,    \* a KeyboardInterrupt was delivered to the main thread
    late_start,     \* tasks a worker started after the interrupt was delivered
    returned,       \* what the caller receives
    target_resolves, \* whether the resolver knows the target of the port scan
    zone_run,       \* what the name servers did during the zone transfer
    cert_run,       \* what the certificate-transparency endpoint answered
    contrib,        \* merging alone: per method, the names it adds, in order
    taken,          \* merging alone: per method, how many of them it has added
    port_in,        \* service identifier: the port argument
    banner,         \* service identifier: the banner argument
    service,        \* service identifier: the returned name
    version,        \* service identifier: the returned version text
    dpc,            \* _detect_service: position of the call
    cert,           \* _grab_banner: the certificate the server presents
    wire,           \* _grab_banner: the calls made on the connection, in order
    dsock,          \* _detect_service: the sockets of _is_port_open and _grab_banner
    poolKind,       \* counting pool: "port" | "sub"
    nTasks,         \* counting pool: size of the batch
    nSubmitted,     \* counting pool: calls submitted
    nRunning,       \* counting pool: probe functions executing
    nFinished,      \* counting pool: calls finished
    nCollected,     \* counting pool: outcomes taken by as_completed
    poolDone        \* counting pool: the with-block was left, the fan-out is over

scanVars == <<op, ports, scan_type, pc, exc, scan_method, backend, tasks,
              wordlist, nsub, fstate, net, fres, fexc, consumed, fsock, open_ports,
              found_subdomains,
              interrupted, late_start, returned, target_resolves, zone_run, cert_run,
              contrib, taken>>
identVars == <<port_in, banner, service, version, dpc, cert, wire, dsock>>
poolVars == <<poolKind, nTasks, nSubmitted, nRunning, nFinished, nCollected, poolDone>>
vars == <<scanVars, identVars, poolVars>>

(***************************************************************************)
(* Text helpers                                                            *)
(***************************************************************************)
Digits == <<"0", "1", "2", "3", "4", "5", "6", "7", "8", "9">>

IsDigit(c) == \E i \in 1..10 : Digits[i] = c

DigitVal(c) == (CHOOSE i \in 1..10 : Digits[i] = c) - 1

\* str.split(sep): the parts between the separators, empty parts kept
RECURSIVE split(_, _)
split(s, sep) ==
    IF \A i \in 1..Len(s) : s[i] # sep
    THEN <<s>>
    ELSE LET k == CHOOSE i \in 1..Len(s) :
                      s[i] = sep /\ \A j \in 1..(i - 1) : s[j] # sep
         IN <<SubSeq(s, 1, k - 1)>> \o split(SubSeq(s, k + 1, Len(s)), sep)

\* whether int(s) succeeds, for text over digits, ',', '-' and letters
IsIntText(s) == Len(s) > 0 /\ \A i \in 1..Len(s) : IsDigit(s[i])

\* int(s) for a string of decimal digits
RECURSIVE int(_)
int(s) ==
    IF Len(s) = 0 THEN 0
    ELSE 10 * int(SubSeq(s, 1, Len(s) - 1)) + DigitVal(s[Len(s)])

\* list(range(a, b + 1))
range(a, b) == [i \in 1..(IF b >= a THEN b - a + 1 ELSE 0) |-> a + i - 1]

RECURSIVE Flatten(_)
Flatten(ss) == IF Len(ss) = 0 THEN <<>> ELSE Head(ss) \o Flatten(Tail(ss))

Range(s) == {s[i] : i \in 1..Len(s)}

(***************************************************************************)
(* PortScanner._parse_port_range                                           *)
(***************************************************************************)
\* one comma-separated part: the ports it contributes, or a ValueError
parse_part(part) ==
    IF \E i \in 1..Len(part) : part[i] = "-"
    THEN LET bounds == split(part, "-")
         IN IF Len(bounds) = 2 /\ IsIntText(bounds[1]) /\ IsIntText(bounds[2])
            THEN [ok |-> TRUE, list |-> range(int(bounds[1]), int(bounds[2]))]
            ELSE [ok |-> FALSE, list |-> <<>>]
    ELSE IF IsIntText(part)
         THEN [ok |-> TRUE, list |-> <<int(part)>>]
         ELSE [ok |-> FALSE, list |-> <<>>]

parse_port_range(text) ==
    LET parts == split(text, ",")
        each == [i \in 1..Len(parts) |-> parse_part(parts[i])]
    IN IF \A i \in 1..Len(parts) : each[i].ok
       THEN [ok |-> TRUE, list |-> Flatten([i \in 1..Len(parts) |-> each[i].list])]
       ELSE [ok |-> FALSE, list |-> <<>>]

(***************************************************************************)
(* PortScanner._get_service_name and PortScanner._scan_port                *)
(***************************************************************************)
get_service_name(port) ==
    CASE port = 20 -> "ftp-data" [] port = 21 -> "ftp" [] port = 22 -> "ssh"
      [] port = 23 -> "telnet" [] port = 25 -> "smtp" [] port = 53 -> "dns"
      [] port = 80 -> "http" [] port = 110 -> "pop3" [] port = 143 -> "imap"
      [] port = 443 -> "https" [] port = 445 -> "smb" [] port = 3306 -> "mysql"
      [] port = 3389 -> "rdp" [] port = 5432 -> "postgresql" [] port = 5900 -> "vnc"
      [] port = 8080 -> "http-proxy" [] port = 8443 -> "https-alt"
      [] port = 27017 -> "mongodb" [] port = 6379 -> "redis"
      [] OTHER -> "unknown"

open_entry(port, protocol) ==
    [port |-> port, protocol |-> protocol, state |-> "open",
     service |-> get_service_name(port)]

\* What the network can do for one probe of `port`.  TCP: connect_ex returns 0
\* ("connected"), returns an errno ("refused", "timeout") or raises ("error":
\* the target does not resolve, or the port is outside 0..65535).  UDP: a
\* datagram arrives ("response"), recvfrom times out, or a call raises.
NetOutcomes(port, stype) ==
    IF port < 0 \/ port > 65535 THEN {"error"}
    ELSE IF stype = "udp"
         THEN (IF port = 0 THEN {} ELSE {"response"}) \cup {"timeout", "error"}
         ELSE (IF port = 0 THEN {} ELSE {"connected"}) \cup {"refused", "timeout", "error"}

\* variant: a UDP timeout is reported as open ("open|filtered" read as open)
scan_port_TimeoutOpen(port, stype, outcome) ==
    IF stype \in {"tcp", "syn"}
    THEN IF outcome = "connected" THEN <<open_entry(port, "tcp")>> ELSE <<>>
    ELSE IF stype = "udp"
         THEN IF outcome \in {"response", "timeout"} THEN <<open_entry(port, "udp")>>
              ELSE <<>>
         ELSE <<>>

\* the value _scan_port returns: <<entry>>, or <<>> for None
scan_port(port, stype, outcome) ==
    IF stype \in {"tcp", "syn"}
    THEN IF outcome = "connected" THEN <<open_entry(port, "tcp")>> ELSE <<>>
    ELSE IF stype = "udp"
         THEN IF outcome = "response" THEN <<open_entry(port, "udp")>>
              ELSE IF outcome = "timeout" THEN <<>>
              ELSE <<>>
         ELSE <<>>

\* whether _scan_port has called sock.close() when it returns: after connect_ex
\* returned (line 165); after recvfrom returned (182) or timed out (192); not
\* when a call raised anything else, which goes to "except Exception: pass"
scan_port_closes(stype, outcome) ==
    IF stype \in {"tcp", "syn"} THEN outcome # "error"
    ELSE outcome \in {"response", "timeout"}

\* A socket the function closed is closed.  One it did not close is closed only
\* by the finalizer of the socket object, whenever the collector gets to it:
\* at the return of the function, later, or not before the process ends.
socket_after(closed_by_code) == IF closed_by_code THEN {"closed"} ELSE {"open", "closed"}

\* sorted(open_ports, key=lambda x: x['port'])
sorted_by_port(entries) == SortSeq(entries, LAMBDA a, b : a.port < b.port)

(***************************************************************************)
(* PortScanner._nmap_scan and PortScanner._parse_nmap_output               *)
(*                                                                         *)
(* The subprocess either times out, fails to run, or prints a document:    *)
(* "garbage" (not XML) or the sequence of its <port> elements in document  *)
(* order.  An element is [portid, protocol, state, service], service "" if *)
(* the element has no <service> child.                                     *)
(***************************************************************************)
parse_nmap_output(xml_output) ==
    LET open == SelectSeq(xml_output, LAMBDA e : e.state = "open")
    IN [i \in 1..Len(open) |->
           [port |-> int(open[i].portid), protocol |-> open[i].protocol,
            state |-> "open",
            service |-> IF open[i].service = "" THEN "unknown" ELSE open[i].service]]

nmap_scan(run) ==
    IF run.how # "output" THEN <<>>                        \* TimeoutExpired, other error
    ELSE IF run.garbage THEN <<>>                          \* ET.ParseError, logged
    ELSE IF \E i \in 1..Len(run.xml) :
                run.xml[i].state = "open" /\ ~IsIntText(run.xml[i].portid)
         THEN <<>>                                         \* int() raises, caught in _nmap_scan
         ELSE parse_nmap_output(run.xml)

(***************************************************************************)
(* SubdomainDiscovery._test_subdomain                                      *)
(***************************************************************************)
\* self.target
target == <<"t", ".", "c">>

\* f"{subdomain}.{self.target}"
full_domain(subdomain) == subdomain \o <<".">> \o target

\* gethostbyname encodes the name with the idna codec before any lookup; the
\* codec raises UnicodeError for an empty label or one longer than 63.  A
\* single trailing dot is accepted.
idna_fails(name) ==
    LET labels == split(name, ".")
        n == Len(labels)
    IN \E i \in 1..n :
          \/ Len(labels[i]) > 63
          \/ Len(labels[i]) = 0 /\ ~(i = n /\ n > 1)

\* what gethostbyname can do for `name`
ResolveOutcomes(name) ==
    IF idna_fails(name) THEN {"UnicodeError"} ELSE {"resolved", "gaierror"}

\* the value _test_subdomain returns (<<>> for None) and the exception it lets out
test_subdomain(subdomain, outcome) ==
    IF outcome = "resolved" THEN [value |-> <<full_domain(subdomain)>>, raised |-> "none"]
    ELSE IF outcome = "gaierror" THEN [value |-> <<>>, raised |-> "none"]
    ELSE [value |-> <<>>, raised |-> outcome]

(***************************************************************************)
(* Ordering of names: sorted() on str compares code points                 *)
(***************************************************************************)
CodePoints == <<"\n", "*", ".", "@", "a", "b", "c", "m", "n", "t", "w", "x">>

ord(c) == CHOOSE i \in 1..Len(CodePoints) : CodePoints[i] = c

RECURSIVE str_lt(_, _)
str_lt(a, b) ==
    IF Len(b) = 0 THEN FALSE
    ELSE IF Len(a) = 0 THEN TRUE
    ELSE IF a[1] = b[1] THEN str_lt(Tail(a), Tail(b))
    ELSE ord(a[1]) < ord(b[1])

\* sorted(self.found_subdomains)
RECURSIVE sorted(_)
sorted(S) ==
    IF S = {} THEN <<>>
    ELSE LET m == CHOOSE x \in S : \A y \in S \ {x} : str_lt(x, y)
         IN <<m>> \o sorted(S \ {m})

(***************************************************************************)
(* SubdomainDiscovery._attempt_zone_transfer, _check_cert_transparency     *)
(***************************************************************************)
\* A run of the zone transfer: the NS query fails, or answers with name
\* servers; the transfer from each either raises or yields the zone's nodes.
\* variant: the first name server that fails ends the method
attempt_zone_transfer_StopAtFailure(found, run) ==
    IF ~run.ns_ok THEN found
    ELSE LET done == {i \in 1..Len(run.xfr) : \A k \in 1..i : run.xfr[k].ok}
         IN found \cup UNION {{full_domain(run.xfr[i].nodes[j]) :
                                  j \in 1..Len(run.xfr[i].nodes)} : i \in done}

attempt_zone_transfer(found, run) ==
    IF ~run.ns_ok THEN found
    ELSE LET done == {i \in 1..Len(run.xfr) : run.xfr[i].ok}
         IN found \cup UNION {{full_domain(run.xfr[i].nodes[j]) :
                                  j \in 1..Len(run.xfr[i].nodes)} : i \in done}

\* the whitespace of str.strip() and of \s that occurs in the texts used here
WhiteSpace == {" ", "\t", "\n", "\r"}

\* str.strip()
RECURSIVE strip(_)
strip(s) ==
    IF Len(s) = 0 THEN s
    ELSE IF s[1] \in WhiteSpace THEN strip(Tail(s))
    ELSE IF s[Len(s)] \in WhiteSpace THEN strip(SubSeq(s, 1, Len(s) - 1))
    ELSE s

\* str.endswith
endswith(s, suffix) ==
    Len(s) >= Len(suffix) /\ SubSeq(s, Len(s) - Len(suffix) + 1, Len(s)) = suffix

\* the names one certificate entry contributes
cert_names(name_value) ==
    LET lines == split(name_value, "\n")
        names == {strip(lines[i]) : i \in 1..Len(lines)}
    IN {n \in names : endswith(n, target) /\ \A k \in 1..Len(n) : n[k] # "*"}

\* A run of the lookup: the request raises, answers with another status,
\* answers 200 with a body response.json() rejects, or answers 200 with a JSON
\* list; an entry that is no mapping (or whose name_value is no string) raises,
\* which ends the loop at that entry.
check_cert_transparency(found, run) ==
    IF run.how # "json" THEN found
    ELSE LET bad == {i \in 1..Len(run.data) : run.data[i].bad}
             stop == IF bad = {} THEN Len(run.data) + 1
                     ELSE CHOOSE i \in bad : \A j \in bad : i <= j
         IN found \cup UNION {cert_names(run.data[i].name_value) : i \in 1..(stop - 1)}

(***************************************************************************)
(* Port specifications as the caller means them                            *)
(***************************************************************************)
\* a part of a port specification is valid: "p" or "a-b", decimal, 1 <= a <= b <= 65535
ValidPart(part) ==
    LET ends == split(part, "-")
    IN /\ Len(ends) \in {1, 2}
       /\ \A k \in 1..Len(ends) :
             IsIntText(ends[k]) /\ int(ends[k]) >= 1 /\ int(ends[k]) <= 65535
       /\ int(ends[1]) <= int(ends[Len(ends)])

ValidPortSpec(text) ==
    LET parts == split(text, ",") IN \A k \in 1..Len(parts) : ValidPart(parts[k])

\* the set of ports a valid specification denotes
ImpliedPorts(text) ==
    LET parts == split(text, ",")
    IN UNION { LET ends == split(parts[k], "-")
               IN int(ends[1])..int(ends[Len(ends)]) : k \in 1..Len(parts) }

\* str(n) for n >= 0
RECURSIVE str(_)
str(n) == IF n < 10 THEN <<Digits[n + 1]>> ELSE str(n \div 10) \o <<Digits[(n % 10) + 1]>>

(***************************************************************************)
(* Inputs and environment choices                                          *)
(***************************************************************************)
MaxXmlPorts == 2
MaxWords == 3
MaxNameServers == 2
MaxCertEntries == 2

BoundedSeq(S, n) == UNION {[1..k -> S] : k \in 0..n}

\* "20-22,80", "80,80", "1-3,2", "443,80", "0", "70000", "5-3", "7x"
ScanPortSpecs ==
    { <<"2", "0", "-", "2", "2", ",", "8", "0">>,
      <<"8", "0", ",", "8", "0">>,
      <<"1", "-", "3", ",", "2">>,
      <<"4", "4", "3", ",", "8", "0">>,
      <<"0">>,
      <<"7", "0", "0", "0", "0">>,
      <<"5", "-", "3">>,
      <<"7", "x">> }

ScanTypes == {"syn", "tcp", "udp"}

\* the <port> elements the tool may print when asked for `text` with -p and
\* --open: a port that was asked for, open or open|filtered
XmlElements(text) ==
    { [portid |-> str(p), protocol |-> "tcp", state |-> st, service |-> ""] :
        p \in ImpliedPorts(text), st \in {"open", "open|filtered"} }

\* The runs of the subprocess for -p `text`: it times out, cannot be run, or
\* exits; a -p it rejects leaves stdout without a document; otherwise the
\* document lists its <port> elements in the document's own order, one group
\* per host the target names.
NmapRuns(text) ==
    { [how |-> h, garbage |-> FALSE, xml |-> <<>>] : h \in {"TimeoutExpired", "Exception"} }
    \cup { [how |-> "output", garbage |-> TRUE, xml |-> <<>>] }
    \cup (IF ValidPortSpec(text)
          THEN { [how |-> "output", garbage |-> FALSE, xml |-> x] :
                   x \in BoundedSeq(XmlElements(text), MaxXmlPorts) }
          ELSE {})

\* the lines of a wordlist file, stripped: "w", "m", "m." and the blank line
WordLines == { <<"w">>, <<"m">>, <<"m", ".">>, <<>> }

Wordlists == BoundedSeq(WordLines, MaxWords)

ZoneRuns ==
    { [ns_ok |-> FALSE, xfr |-> <<>>] }
    \cup { [ns_ok |-> TRUE, xfr |-> x] :
              x \in BoundedSeq({ [ok |-> FALSE, nodes |-> <<>>],
                                 [ok |-> TRUE, nodes |-> << <<"@">>, <<"w">> >>] },
                               MaxNameServers) }

CertEntries ==
    { [bad |-> TRUE, name_value |-> <<>>],
      [bad |-> FALSE, name_value |-> <<"w", ".", "t", ".", "c">>],
      [bad |-> FALSE, name_value |-> <<"x", "t", ".", "c">>],
      [bad |-> FALSE,
       name_value |-> <<"*", ".", "t", ".", "c", "\n", "x", ".", "t", ".", "c">>] }

CertRuns ==
    { [how |-> h, data |-> <<>>] : h \in {"RequestException", "status", "JSONDecodeError"} }
    \cup { [how |-> "json", data |-> d] : d \in BoundedSeq(CertEntries, MaxCertEntries) }

(***************************************************************************)
(* State                                                                   *)
(***************************************************************************)
NoResult ==
    [status |-> "pending", open_ports |-> <<>>, scan_method |-> "",
     total |-> 0, subdomains |-> <<>>]

\* the call raised `e`: the caller receives no result
Raised(e) == [NoResult EXCEPT !.status = e]

ScanIdle ==
    /\ op = "idle" /\ ports = <<>> /\ scan_type = "" /\ pc = "idle" /\ exc = "none"
    /\ scan_method = "" /\ backend = "" /\ tasks = <<>> /\ wordlist = <<>> /\ nsub = 0
    /\ fstate = <<>> /\ net = <<>> /\ fres = <<>> /\ fexc = <<>> /\ consumed = <<>> /\ fsock = <<>>
    /\ open_ports = <<>> /\ found_subdomains = {} /\ interrupted = FALSE
    /\ late_start = {} /\ returned = NoResult
    /\ target_resolves = TRUE /\ zone_run = <<>> /\ cert_run = <<>>
    /\ contrib = <<>> /\ taken = <<>>

IdentIdle ==
    /\ port_in = 0 /\ banner = <<>> /\ service = ""
    /\ version = <<>> /\ dpc = "idle" /\ cert = "" /\ wire = <<>> /\ dsock = <<>>

PoolIdle ==
    /\ poolKind = "" /\ nTasks = 0 /\ nSubmitted = 0 /\ nRunning = 0
    /\ nFinished = 0 /\ nCollected = 0 /\ poolDone = FALSE

\* PortScanner.scan(ports, scan_type) or SubdomainDiscovery.discover(wordlist)
\* has just been called on a fresh object
Init ==
    /\ op \in {"port", "sub"}
    /\ IF op = "port"
       THEN ports \in ScanPortSpecs /\ scan_type \in ScanTypes /\ wordlist = <<>>
       ELSE ports = <<>> /\ scan_type = "" /\ wordlist \in Wordlists
    /\ pc = IF op = "port" THEN "scan" ELSE "brute_force"
    /\ exc = "none" /\ scan_method = "" /\ backend = "" /\ tasks = <<>> /\ nsub = 0
    /\ fstate = <<>> /\ net = <<>> /\ fres = <<>> /\ fexc = <<>> /\ consumed = <<>> /\ fsock = <<>>
    /\ open_ports = <<>> /\ found_subdomains = {} /\ interrupted = FALSE
    /\ late_start = {} /\ returned = NoResult
    /\ target_resolves \in (IF op = "port" THEN BOOLEAN ELSE {TRUE})
    /\ zone_run = <<>> /\ cert_run = <<>>
    /\ contrib = <<>> /\ taken = <<>>
    /\ IdentIdle /\ PoolIdle

(***************************************************************************)
(* The worker pool: with ThreadPoolExecutor(max_workers=...) as executor   *)
(***************************************************************************)
PortMaxWorkers == 50
SubMaxWorkers == 20

max_workers(kind) == IF kind = "port" THEN PortMaxWorkers ELSE SubMaxWorkers

\* variant: no pool thread ever takes a call
WorkerFree_Never(busy, kind) == busy < 0

\* variant: the pool admits one call more than its limit
WorkerFree_OneMore(busy, kind) == busy <= max_workers(kind)

\* a pool thread is free to take the next queued call
WorkerFree(busy, kind) == busy < max_workers(kind)

Running == {i \in 1..nsub : fstate[i] = "running"}
Queued == {i \in 1..nsub : fstate[i] = "queued"}
Started == {i \in 1..nsub : fstate[i] \in {"running", "finished"}}

\* the futures dict is about to be built from `args`
BeginFanout(args) ==
    /\ tasks' = args
    /\ nsub' = 0
    /\ fstate' = [i \in 1..Len(args) |-> "new"]
    /\ net' = [i \in 1..Len(args) |-> ""]
    /\ fres' = [i \in 1..Len(args) |-> <<>>]
    /\ fexc' = [i \in 1..Len(args) |-> "none"]
    /\ consumed' = [i \in 1..Len(args) |-> 0]
    /\ fsock' = [i \in 1..Len(args) |-> "none"]

fanVars == <<tasks, nsub, fstate, net, fres, fexc, consumed, fsock>>
inVars == <<op, ports, scan_type, wordlist, target_resolves>>
envVars == <<zone_run, cert_run>>
mergeVars == <<contrib, taken>>

(***************************************************************************)
(* PortScanner.scan                                                        *)
(***************************************************************************)
\* lines 34-41: the result dict is built; _check_nmap() answers has_nmap
ScanBegin ==
    /\ op = "port" /\ pc = "scan"
    /\ \E has_nmap \in BOOLEAN :
          scan_method' = IF has_nmap THEN "nmap" ELSE "custom"
    /\ pc' = "branch"
    /\ UNCHANGED <<inVars, fanVars, exc, backend, open_ports, found_subdomains, interrupted,
                   late_start, returned, identVars, poolVars, envVars, mergeVars>>

\* lines 44-45, 49-52: the second _check_nmap() answers True and the scan is
\* "syn": the external tool runs and its output is the result
NmapScan ==
    /\ op = "port" /\ pc = "branch" /\ scan_type = "syn"
    /\ \E run \in NmapRuns(ports) :
          /\ target_resolves \/ run.xml = <<>>     \* no host, no <port> element
          /\ open_ports' = nmap_scan(run)
          /\ returned' = [status |-> "ok", open_ports |-> open_ports',
                          scan_method |-> scan_method, total |-> Len(open_ports'),
                          subdomains |-> <<>>]
    /\ pc' = "done"
    /\ UNCHANGED <<inVars, fanVars, exc, scan_method, found_subdomains, interrupted,
                   late_start, identVars, poolVars, envVars, mergeVars>>
    /\ backend' = "nmap"

\* lines 46-47, 120-125: otherwise _custom_scan parses the port range; a
\* ValueError from int() or from the unpacking leaves scan() uncaught
CustomScanParse ==
    /\ op = "port" /\ pc = "branch"
    /\ LET r == parse_port_range(ports)
       IN IF r.ok
          THEN /\ BeginFanout(r.list)
               /\ pc' = "fanout"
               /\ UNCHANGED <<exc, returned>>
          ELSE /\ exc' = "ValueError"
               /\ returned' = Raised("ValueError")
               /\ pc' = "done"
               /\ UNCHANGED fanVars
    /\ backend' = "custom"
    /\ UNCHANGED <<inVars, scan_method, open_ports, found_subdomains, interrupted,
                   late_start, identVars, poolVars, envVars, mergeVars>>

(***************************************************************************)
(* SubdomainDiscovery._brute_force_subdomains: the wordlist                *)
(***************************************************************************)
\* lines 82-90: [line.strip() for line in f if line.strip()]
LoadWordlist ==
    /\ op = "sub" /\ pc = "brute_force"
    /\ BeginFanout(SelectSeq(wordlist, LAMBDA line : strip(line) # <<>>))
    /\ pc' = "fanout"
    /\ UNCHANGED <<inVars, exc, scan_method, backend, open_ports, found_subdomains, interrupted,
                   late_start, returned, identVars, poolVars, envVars, mergeVars>>

(***************************************************************************)
(* The fan-out: submit, run, as_completed                                  *)
(***************************************************************************)
\* executor.submit(...) of the next argument, inside the dict comprehension
Submit ==
    /\ pc = "fanout" /\ nsub < Len(tasks)
    /\ nsub' = nsub + 1
    /\ fstate' = [fstate EXCEPT ![nsub + 1] = "queued"]
    /\ UNCHANGED <<inVars, tasks, net, fres, fexc, consumed, fsock, pc, exc, scan_method,
                   backend, open_ports, found_subdomains, interrupted, late_start, returned,
                   identVars, poolVars, envVars, mergeVars>>

\* a pool thread takes the oldest queued call; the pool keeps doing so while
\* the with-block is being left (shutdown(wait=True) cancels nothing)
Start ==
    /\ pc \in {"fanout", "shutdown"}
    /\ Queued # {}
    /\ WorkerFree(Cardinality(Running), op)
    /\ LET i == CHOOSE q \in Queued : \A r \in Queued : q <= r
       IN /\ fstate' = [fstate EXCEPT ![i] = "running"]
          /\ late_start' = IF interrupted THEN late_start \cup {i} ELSE late_start
    /\ UNCHANGED <<inVars, tasks, nsub, net, fres, fexc, consumed, fsock, pc, exc,
                   scan_method, backend, open_ports, found_subdomains, interrupted, returned,
                   identVars, poolVars, envVars, mergeVars>>

\* the outcome of call i: what _scan_port / _test_subdomain hands to its future
probe(i, outcome) ==
    IF op = "port"
    THEN [value |-> scan_port(tasks[i], scan_type, outcome), raised |-> "none"]
    ELSE test_subdomain(tasks[i], outcome)

\* a target the resolver does not know makes connect_ex and sendto raise
\* socket.gaierror in every probe
ProbeOutcomes(i) ==
    IF op = "port"
    THEN (IF target_resolves THEN NetOutcomes(tasks[i], scan_type) ELSE {"error"})
    ELSE ResolveOutcomes(full_domain(tasks[i]))

\* the socket of a probe when the probe returns: _scan_port's, closed or left
\* to the collector; another scan type and _test_subdomain open none
probe_socket(outcome) ==
    IF op = "port" /\ scan_type \in {"tcp", "syn", "udp"}
    THEN socket_after(scan_port_closes(scan_type, outcome))
    ELSE {"none"}

\* the probe of call i returns (or raises) in its pool thread
Finish(i) ==
    /\ pc \in {"fanout", "shutdown"}
    /\ i \in Running
    /\ \E outcome \in ProbeOutcomes(i) :
          /\ net' = [net EXCEPT ![i] = outcome]
          /\ fres' = [fres EXCEPT ![i] = probe(i, outcome).value]
          /\ fexc' = [fexc EXCEPT ![i] = probe(i, outcome).raised]
          /\ \E left \in probe_socket(outcome) : fsock' = [fsock EXCEPT ![i] = left]
    /\ fstate' = [fstate EXCEPT ![i] = "finished"]
    /\ UNCHANGED <<inVars, tasks, nsub, consumed, pc, exc, scan_method, backend, open_ports,
                   found_subdomains, interrupted, late_start, returned,
                   identVars, poolVars, envVars, mergeVars>>

\* variant: the append is a read-modify-write that loses what was appended
\* since the read
collect_port_Lost(acc, result) == IF result # <<>> THEN <<result[1]>> ELSE acc

\* port_scanner.py 138-139: if result: open_ports.append(result)
collect_port(acc, result) == IF result # <<>> THEN Append(acc, result[1]) ELSE acc

\* variant: the found-set is replaced by the name just found
collect_subdomain_Replace(found, result) == IF result # <<>> THEN {result[1]} ELSE found

\* subdomain_discovery.py 101-102: if subdomain: self.found_subdomains.add(subdomain)
collect_subdomain(found, result) == IF result # <<>> THEN found \cup {result[1]} ELSE found

\* one turn of "for future in as_completed(futures)": future.result() returns
\* the value, or re-raises what the call raised, which leaves the with-block
Collect(i) ==
    /\ pc = "fanout" /\ nsub = Len(tasks)
    /\ i \in 1..nsub /\ fstate[i] = "finished" /\ consumed[i] = 0
    /\ consumed' = [consumed EXCEPT ![i] = consumed[i] + 1]
    /\ IF fexc[i] # "none"
       THEN /\ exc' = fexc[i]
            /\ pc' = "shutdown"
            /\ UNCHANGED <<open_ports, found_subdomains>>
       ELSE /\ open_ports' = IF op = "port" THEN collect_port(open_ports, fres[i])
                                ELSE open_ports
            /\ found_subdomains' = IF op = "sub"
                                      THEN collect_subdomain(found_subdomains, fres[i])
                                      ELSE found_subdomains
            /\ UNCHANGED <<pc, exc>>
    /\ UNCHANGED <<inVars, tasks, nsub, fstate, net, fres, fexc, fsock, scan_method, backend,
                   interrupted, late_start, returned, identVars, poolVars, envVars, mergeVars>>

\* SIGINT: KeyboardInterrupt is raised in the main thread, inside the with-block
Interrupt ==
    /\ pc = "fanout" /\ ~interrupted
    /\ interrupted' = TRUE
    /\ exc' = "KeyboardInterrupt"
    /\ pc' = "shutdown"
    /\ UNCHANGED <<inVars, fanVars, scan_method, backend, open_ports, found_subdomains,
                   late_start, returned, identVars, poolVars, envVars, mergeVars>>

\* the with-block has been left by an exception: __exit__ joins the pool, then
\* the exception goes on to the caller, who gets no result (spotter.py 204-212)
ShutdownDone ==
    /\ pc = "shutdown"
    /\ \A i \in 1..nsub : fstate[i] = "finished"
    /\ returned' = Raised(exc)
    /\ pc' = "done"
    /\ UNCHANGED <<inVars, fanVars, exc, scan_method, backend, open_ports, found_subdomains,
                   interrupted, late_start, identVars, poolVars, envVars, mergeVars>>

\* port_scanner.py 142 and 49-52: every future was taken; the sorted list is
\* returned through scan()
CustomScanReturn ==
    /\ op = "port" /\ pc = "fanout" /\ nsub = Len(tasks)
    /\ \A i \in 1..nsub : consumed[i] > 0
    /\ returned' = [status |-> "ok", open_ports |-> sorted_by_port(open_ports),
                    scan_method |-> scan_method, total |-> Len(open_ports),
                    subdomains |-> <<>>]
    /\ pc' = "done"
    /\ UNCHANGED <<inVars, fanVars, exc, scan_method, backend, open_ports, found_subdomains,
                   interrupted, late_start, identVars, poolVars, envVars, mergeVars>>

(***************************************************************************)
(* SubdomainDiscovery.discover: after the brute force                      *)
(***************************************************************************)
\* the brute-force with-block ends normally; discover goes on to method 2
BruteForceReturn ==
    /\ op = "sub" /\ pc = "fanout" /\ nsub = Len(tasks)
    /\ \A i \in 1..nsub : consumed[i] > 0
    /\ pc' = "zone_transfer"
    /\ UNCHANGED <<inVars, fanVars, exc, scan_method, backend, open_ports, found_subdomains,
                   interrupted, late_start, returned, identVars, poolVars, envVars, mergeVars>>

AttemptZoneTransfer ==
    /\ op = "sub" /\ pc = "zone_transfer"
    /\ \E run \in ZoneRuns :
          /\ zone_run' = <<run>>
          /\ found_subdomains' = attempt_zone_transfer(found_subdomains, run)
    /\ pc' = "cert_transparency"
    /\ UNCHANGED <<inVars, fanVars, exc, scan_method, backend, open_ports, interrupted,
                   late_start, returned, identVars, poolVars, cert_run, mergeVars>>

CheckCertTransparency ==
    /\ op = "sub" /\ pc = "cert_transparency"
    /\ \E run \in CertRuns :
          /\ cert_run' = <<run>>
          /\ found_subdomains' = check_cert_transparency(found_subdomains, run)
    /\ pc' = "compile"
    /\ UNCHANGED <<inVars, fanVars, exc, scan_method, backend, open_ports, interrupted,
                   late_start, returned, identVars, poolVars, zone_run, mergeVars>>

\* _resolve_subdomain: the address, or 'N/A' whatever gethostbyname raised
resolve_subdomain(subdomain, resolvable) ==
    IF subdomain \in resolvable /\ ~idna_fails(subdomain) THEN "ip" ELSE "N/A"

\* variant: a name whose lookup fails is left out of the list
compile_results_DropUnresolved(found, resolvable) ==
    LET names == sorted(found \cap resolvable)
    IN [i \in 1..Len(names) |-> [subdomain |-> names[i], ip_address |-> "ip"]]

\* lines 56-61: one record per name of sorted(self.found_subdomains)
compile_results(found, resolvable) ==
    LET names == sorted(found)
    IN [i \in 1..Len(names) |->
           [subdomain |-> names[i],
            ip_address |-> resolve_subdomain(names[i], resolvable)]]

\* lines 55-66: the names that resolve now are `resolvable`
Compile ==
    /\ op = "sub" /\ pc = "compile"
    /\ \E resolvable \in SUBSET {n \in found_subdomains : ~idna_fails(n)} :
          returned' = [status |-> "ok", open_ports |-> <<>>, scan_method |-> "",
                       total |-> Len(compile_results(found_subdomains, resolvable)),
                       subdomains |-> compile_results(found_subdomains, resolvable)]
    /\ pc' = "done"
    /\ UNCHANGED <<inVars, fanVars, exc, scan_method, backend, open_ports, found_subdomains,
                   interrupted, late_start, identVars, poolVars, envVars, mergeVars>>

Next ==
    \/ ScanBegin
    \/ NmapScan
    \/ CustomScanParse
    \/ LoadWordlist
    \/ Submit
    \/ Start
    \/ \E i \in 1..Len(tasks) : Finish(i)
    \/ \E i \in 1..Len(tasks) : Collect(i)
    \/ Interrupt
    \/ ShutdownDone
    \/ CustomScanReturn
    \/ BruteForceReturn

Spec == Init /\ [][Next]_vars

(***************************************************************************)
(* SubdomainDiscovery.discover from the end of the brute force on          *)
(***************************************************************************)
\* the words of a brute force that has ended: "w" and "m"
BruteWords == { <<>>, << <<"w">> >>, << <<"w">>, <<"m">> >> }

\* _brute_force_subdomains has returned: every call ran and was collected,
\* the names that resolved are in found_subdomains
InitDiscover ==
    /\ op = "sub" /\ pc = "zone_transfer"
    /\ ports = <<>> /\ scan_type = "" /\ target_resolves = TRUE
    /\ wordlist \in BruteWords /\ tasks = wordlist /\ nsub = Len(tasks)
    /\ net \in [1..Len(tasks) -> {"resolved", "gaierror"}]
    /\ fstate = [i \in 1..Len(tasks) |-> "finished"]
    /\ fres = [i \in 1..Len(tasks) |-> test_subdomain(tasks[i], net[i]).value]
    /\ fexc = [i \in 1..Len(tasks) |-> "none"]
    /\ consumed = [i \in 1..Len(tasks) |-> 1]
    /\ fsock = [i \in 1..Len(tasks) |-> "none"]
    /\ found_subdomains = {fres[i][1] : i \in {j \in 1..Len(tasks) : fres[j] # <<>>}}
    /\ exc = "none" /\ scan_method = "" /\ backend = "" /\ open_ports = <<>>
    /\ interrupted = FALSE /\ late_start = {} /\ returned = NoResult
    /\ zone_run = <<>> /\ cert_run = <<>>
    /\ contrib = <<>> /\ taken = <<>>
    /\ IdentIdle /\ PoolIdle

NextDiscover ==
    \/ AttemptZoneTransfer
    \/ CheckCertTransparency
    \/ Compile

SpecDiscover == InitDiscover /\ [][NextDiscover]_vars

(***************************************************************************)
(* The merging alone: the three methods add their names to the one set,    *)
(* self.found_subdomains.add(subdomain) at lines 102, 131 and 157, taken   *)
(* here in every order                                                     *)
(***************************************************************************)
MaxContrib == 2

Methods == {"brute_force", "zone_transfer", "cert_transparency"}

MergeNames == {full_domain(<<"w">>), full_domain(<<"m">>)}

InitMerge ==
    /\ op = "merge" /\ pc = "merge"
    /\ contrib \in [Methods -> BoundedSeq(MergeNames, MaxContrib)]
    /\ taken = [m \in Methods |-> 0]
    /\ found_subdomains = {}
    /\ ports = <<>> /\ scan_type = "" /\ exc = "none" /\ scan_method = "" /\ backend = ""
    /\ tasks = <<>> /\ wordlist = <<>> /\ nsub = 0
    /\ fstate = <<>> /\ net = <<>> /\ fres = <<>> /\ fexc = <<>> /\ consumed = <<>> /\ fsock = <<>>
    /\ open_ports = <<>> /\ interrupted = FALSE /\ late_start = {} /\ returned = NoResult
    /\ target_resolves = TRUE /\ zone_run = <<>> /\ cert_run = <<>>
    /\ IdentIdle /\ PoolIdle

\* method m adds its next name
MergeAdd(m) ==
    /\ op = "merge" /\ taken[m] < Len(contrib[m])
    /\ found_subdomains' = collect_subdomain(found_subdomains, <<contrib[m][taken[m] + 1]>>)
    /\ taken' = [taken EXCEPT ![m] = taken[m] + 1]
    /\ UNCHANGED <<inVars, fanVars, pc, exc, scan_method, backend, open_ports, interrupted,
                   late_start, returned, identVars, poolVars, envVars, contrib>>

NextMerge == \E m \in Methods : MergeAdd(m)

SpecMerge == InitMerge /\ [][NextMerge]_vars

(***************************************************************************)
(* The port parser alone, over every short text                            *)
(***************************************************************************)
MaxLen == 5

ParseAlphabet == {"0", "1", "2", ",", "-", "x"}

InitParse ==
    /\ op = "parse" /\ pc = "parse"
    /\ ports \in BoundedSeq(ParseAlphabet, MaxLen)
    /\ scan_type = "" /\ exc = "none" /\ scan_method = "" /\ backend = "" /\ tasks = <<>>
    /\ wordlist = <<>> /\ nsub = 0
    /\ fstate = <<>> /\ net = <<>> /\ fres = <<>> /\ fexc = <<>> /\ consumed = <<>> /\ fsock = <<>>
    /\ open_ports = <<>> /\ found_subdomains = {} /\ interrupted = FALSE
    /\ late_start = {} /\ returned = NoResult
    /\ target_resolves = TRUE /\ zone_run = <<>> /\ cert_run = <<>>
    /\ contrib = <<>> /\ taken = <<>>
    /\ IdentIdle /\ PoolIdle

\* port_list = self._parse_port_range(ports)
ParsePortRange ==
    /\ op = "parse" /\ pc = "parse"
    /\ LET r == parse_port_range(ports)
       IN /\ tasks' = r.list
          /\ exc' = IF r.ok THEN "none" ELSE "ValueError"
    /\ pc' = "parsed"
    /\ UNCHANGED <<inVars, nsub, fstate, net, fres, fexc, consumed, fsock, scan_method, backend,
                   open_ports, found_subdomains, interrupted, late_start, returned,
                   identVars, poolVars, envVars, mergeVars>>

NextParse == ParsePortRange

SpecParse == InitParse /\ [][NextParse]_vars

(***************************************************************************)
(* The pool by numbers: how many calls are queued, running and finished,   *)
(* with the worker limits of the source                                    *)
(***************************************************************************)
TaskSlack == 2

\* batch sizes: a few small ones and those around the worker limit
PoolSizes(kind) ==
    (0..TaskSlack) \cup ((max_workers(kind) - 1)..(max_workers(kind) + TaskSlack))

InitPool ==
    /\ ScanIdle /\ IdentIdle
    /\ poolKind \in {"port", "sub"}
    /\ nTasks \in PoolSizes(poolKind)
    /\ nSubmitted = 0 /\ nRunning = 0 /\ nFinished = 0 /\ nCollected = 0
    /\ poolDone = FALSE

\* executor.submit(...) inside the dict comprehension
PoolSubmit ==
    /\ nSubmitted < nTasks
    /\ nSubmitted' = nSubmitted + 1
    /\ UNCHANGED <<poolKind, nTasks, nRunning, nFinished, nCollected, poolDone, scanVars, identVars>>

\* a pool thread takes a queued call
PoolStart ==
    /\ nSubmitted - nRunning - nFinished > 0
    /\ WorkerFree(nRunning, poolKind)
    /\ nRunning' = nRunning + 1
    /\ UNCHANGED <<poolKind, nTasks, nSubmitted, nFinished, nCollected, poolDone, scanVars, identVars>>

\* a probe returns
PoolFinish ==
    /\ nRunning > 0
    /\ nRunning' = nRunning - 1
    /\ nFinished' = nFinished + 1
    /\ UNCHANGED <<poolKind, nTasks, nSubmitted, nCollected, poolDone, scanVars, identVars>>

\* as_completed yields a finished future
PoolCollect ==
    /\ nSubmitted = nTasks
    /\ nCollected < nFinished
    /\ nCollected' = nCollected + 1
    /\ UNCHANGED <<poolKind, nTasks, nSubmitted, nRunning, nFinished, poolDone, scanVars, identVars>>

\* as_completed is exhausted: the with-block ends (every call has finished, so
\* shutdown(wait=True) returns at once) and the fan-out returns
PoolReturn ==
    /\ ~poolDone
    /\ nSubmitted = nTasks /\ nCollected = nTasks
    /\ poolDone' = TRUE
    /\ UNCHANGED <<poolKind, nTasks, nSubmitted, nRunning, nFinished, nCollected,
                   scanVars, identVars>>

NextPool == PoolSubmit \/ PoolStart \/ PoolFinish \/ PoolCollect \/ PoolReturn

SpecPool == InitPool /\ [][NextPool]_vars

\* The main thread keeps running its loops, a free pool thread takes the next
\* queued call, and every probe returns within its socket timeout.
SpecPoolFair ==
    /\ SpecPool
    /\ WF_vars(PoolSubmit) /\ WF_vars(PoolStart) /\ WF_vars(PoolFinish)
    /\ WF_vars(PoolCollect) /\ WF_vars(PoolReturn)

(***************************************************************************)
(* ServiceDetector._identify_service                                       *)
(***************************************************************************)
UpperCase == <<"A", "B", "C", "D", "E", "F", "G", "H", "I", "J", "K", "L", "M",
               "N", "O", "P", "Q", "R", "S", "T", "U", "V", "W", "X", "Y", "Z">>
LowerCase == <<"a", "b", "c", "d", "e", "f", "g", "h", "i", "j", "k", "l", "m",
               "n", "o", "p", "q", "r", "s", "t", "u", "v", "w", "x", "y", "z">>

\* str.lower(), character by character
lower(s) ==
    [i \in 1..Len(s) |->
        IF \E k \in 1..26 : UpperCase[k] = s[i]
        THEN LowerCase[CHOOSE k \in 1..26 : UpperCase[k] = s[i]]
        ELSE s[i]]

\* sub in s
contains(sub, s) ==
    \E i \in 1..(Len(s) - Len(sub) + 1) : SubSeq(s, i, i + Len(sub) - 1) = sub

\* port_services.get(port, 'Unknown')
port_services(port) ==
    CASE port = 21 -> "FTP"
      [] port = 22 -> "SSH"
      [] port = 23 -> "Telnet"
      [] port = 25 -> "SMTP"
      [] port = 53 -> "DNS"
      [] port = 80 -> "HTTP"
      [] port = 110 -> "POP3"
      [] port = 143 -> "IMAP"
      [] port = 443 -> "HTTPS"
      [] port = 445 -> "SMB"
      [] port = 3306 -> "MySQL"
      [] port = 3389 -> "RDP"
      [] port = 5432 -> "PostgreSQL"
      [] port = 5900 -> "VNC"
      [] port = 6379 -> "Redis"
      [] port = 8080 -> "HTTP-Proxy"
      [] port = 8443 -> "HTTPS-Alt"
      [] port = 27017 -> "MongoDB"
      [] OTHER -> "Unknown"

\* variant: the port table is consulted before the banner
identify_service_PortFirst(port, text) ==
    IF port_services(port) # "Unknown" THEN port_services(port)
    ELSE IF text # <<>> /\ contains(<<"s", "s", "h">>, lower(text)) THEN "SSH"
    ELSE "Unknown"

identify_service(port, text) ==
    IF text # <<>>
    THEN LET banner_lower == lower(text)
         IN
            IF contains(<<"s", "s", "h">>, banner_lower) THEN "SSH"
            ELSE IF contains(<<"f", "t", "p">>, banner_lower) THEN "FTP"
            ELSE IF contains(<<"s", "m", "t", "p">>, banner_lower) \/ contains(<<"m", "a", "i", "l">>, banner_lower) THEN "SMTP"
            ELSE IF contains(<<"h", "t", "t", "p">>, banner_lower) \/ contains(<<"a", "p", "a", "c", "h", "e">>, banner_lower) \/ contains(<<"n", "g", "i", "n", "x">>, banner_lower) THEN "HTTP"
            ELSE IF contains(<<"m", "y", "s", "q", "l">>, banner_lower) THEN "MySQL"
            ELSE IF contains(<<"p", "o", "s", "t", "g", "r", "e", "s", "q", "l">>, banner_lower) \/ contains(<<"p", "o", "s", "t", "g", "r", "e", "s">>, banner_lower) THEN "PostgreSQL"
            ELSE IF contains(<<"r", "e", "d", "i", "s">>, banner_lower) THEN "Redis"
            ELSE IF contains(<<"m", "o", "n", "g", "o", "d", "b">>, banner_lower) \/ contains(<<"m", "o", "n", "g", "o">>, banner_lower) THEN "MongoDB"
            ELSE port_services(port)
    ELSE port_services(port)

(***************************************************************************)
(* The identifier alone, over banners made of a few fragments              *)
(***************************************************************************)
MaxFragments == 2

BannerFragments ==
    { <<"S", "S", "H">>,
      <<"f", "t", "p">>,
      <<"s", "m", "t", "p">>,
      <<"M", "a", "i", "l">>,
      <<"H", "T", "T", "P">>,
      <<"A", "p", "a", "c", "h", "e">>,
      <<"n", "g", "i", "n", "x">>,
      <<"M", "y", "S", "Q", "L">>,
      <<"P", "o", "s", "t", "g", "r", "e", "S", "Q", "L">>,
      <<"p", "o", "s", "t", "g", "r", "e", "s">>,
      <<"R", "e", "d", "i", "s">>,
      <<"m", "o", "n", "g", "o", "d", "b">>,
      <<"M", "o", "n", "g", "o">>,
      <<"x", "y">> }

Banners == {Flatten(fs) : fs \in BoundedSeq(BannerFragments, MaxFragments)}

\* ports of the table and one that is not in it
IdentPorts == {22, 80, 3306, 6379, 8080, 9999}

InitIdent ==
    /\ ScanIdle /\ PoolIdle
    /\ port_in \in IdentPorts
    /\ banner \in Banners
    /\ service = ""
    /\ version = <<>> /\ dpc = "idle" /\ cert = "" /\ wire = <<>> /\ dsock = <<>>

\* 'service': self._identify_service(port, banner)
IdentifyService ==
    /\ service = ""
    /\ service' = identify_service(port_in, banner)
    /\ UNCHANGED <<port_in, banner, version, dpc, cert, wire, dsock, scanVars, poolVars>>

NextIdent == IdentifyService

SpecIdent == InitIdent /\ [][NextIdent]_vars

(***************************************************************************)
(* ServiceDetector._extract_version: re.search with the four patterns      *)
(***************************************************************************)
\* where the longest run that starts at i ends, of characters in `chars`
\* (member) or outside it (~member); i - 1 if s[i] is not such a character
RunEnd(s, i, chars, member) ==
    LET stops == {j \in i..Len(s) : (s[j] \in chars) # member}
    IN IF i > Len(s) THEN i - 1
       ELSE IF stops = {} THEN Len(s)
       ELSE (CHOOSE j \in stops : \A k \in stops : j <= k) - 1

\* where a match of \d+(\.\d+){n} that starts at i ends, 0 if there is none:
\* each \d+ is greedy and must reach the end of its run of digits, since what
\* follows it in the pattern is no digit
RECURSIVE dotted_end(_, _, _)
dotted_end(s, i, n) ==
    LET e == RunEnd(s, i, Range(Digits), TRUE)
    IN IF e < i THEN 0
       ELSE IF n = 0 THEN e
       ELSE IF e + 1 <= Len(s) /\ s[e + 1] = "." THEN dotted_end(s, e + 2, n - 1)
       ELSE 0

\* re.search(r'(\d+(\.\d+){n})', s): group 1 of the leftmost match, <<>> if none
search_dotted(s, n) ==
    LET starts == {i \in 1..Len(s) : dotted_end(s, i, n) > 0}
    IN IF starts = {} THEN <<>>
       ELSE LET i == CHOOSE a \in starts : \A b \in starts : a <= b
            IN <<SubSeq(s, i, dotted_end(s, i, n))>>

\* [vV]ersion[:\s]+([^\s]+) at i: the bounds of group 1, <<>> if no match.
\* [:\s]+ is greedy and gives back colons only when nothing else is left for
\* the group
version_label_at(s, i) ==
    LET p == i + 7
        sepEnd == RunEnd(s, p, WhiteSpace \cup {":"}, TRUE)
        ks == {k \in p..sepEnd : k + 1 <= Len(s) /\ s[k + 1] \notin WhiteSpace}
    IN IF \/ i + 6 > Len(s)
          \/ s[i] \notin {"v", "V"}
          \/ SubSeq(s, i + 1, i + 6) # <<"e", "r", "s", "i", "o", "n">>
          \/ ks = {}
       THEN <<>>
       ELSE LET k == CHOOSE a \in ks : \A b \in ks : a >= b
            IN <<k + 1, RunEnd(s, k + 1, WhiteSpace, FALSE)>>

\* re.search(r'[vV]ersion[:\s]+([^\s]+)', s)
search_version_label(s) ==
    LET starts == {i \in 1..Len(s) : version_label_at(s, i) # <<>>}
    IN IF starts = {} THEN <<>>
       ELSE LET i == CHOOSE a \in starts : \A b \in starts : a <= b
            IN <<SubSeq(s, version_label_at(s, i)[1], version_label_at(s, i)[2])>>

\* re.search(r'[vV]([0-9.]+)', s)
search_v_prefixed(s) ==
    LET starts == {i \in 1..(Len(s) - 1) :
                      s[i] \in {"v", "V"} /\ (IsDigit(s[i + 1]) \/ s[i + 1] = ".")}
    IN IF starts = {} THEN <<>>
       ELSE LET i == CHOOSE a \in starts : \A b \in starts : a <= b
            IN <<SubSeq(s, i + 1, RunEnd(s, i + 1, Range(Digits) \cup {"."}, TRUE))>>

\* the text 'Unknown'
Unknown == <<"U", "n", "k", "n", "o", "w", "n">>

\* banner.split('\n')[0][:50]
FirstLineMax == 50

extract_version(text) ==
    IF text = <<>> THEN Unknown
    ELSE IF search_dotted(text, 2) # <<>> THEN search_dotted(text, 2)[1]
    ELSE IF search_dotted(text, 1) # <<>> THEN search_dotted(text, 1)[1]
    ELSE IF search_version_label(text) # <<>> THEN search_version_label(text)[1]
    ELSE IF search_v_prefixed(text) # <<>> THEN search_v_prefixed(text)[1]
    ELSE LET line == split(text, "\n")[1]
             first_line == SubSeq(line, 1, IF Len(line) < FirstLineMax THEN Len(line)
                                           ELSE FirstLineMax)
         IN IF first_line # <<>> THEN first_line ELSE Unknown

(***************************************************************************)
(* ServiceDetector._detect_service: _is_port_open, _grab_banner, analysis  *)
(***************************************************************************)
HttpPorts == {80, 8080, 8000, 8888}
TlsPorts == {443, 8443}

\* lines 101-103: the context _grab_banner builds
variant_ssl_context == [check_hostname |-> TRUE, verify_mode |-> "CERT_REQUIRED"]

ssl_context == [check_hostname |-> FALSE, verify_mode |-> "CERT_NONE"]

\* the certificates a server may present
Certificates == {"valid", "self_signed", "expired", "wrong_host"}

\* ssl: whether the handshake accepts the presented certificate under `context`
certificate_accepted(context, presented) ==
    \/ context.verify_mode = "CERT_NONE"
    \/ presented = "valid"
    \/ presented = "wrong_host" /\ ~context.check_hostname

\* one call made on the connection: which, whether through the TLS layer, the
\* Host header it carries, and how it ended ("ok", "error", "cert_rejected")
Call(name, tls, host, result) ==
    [call |-> name, tls |-> tls, host |-> host, result |-> result]

\* what the peer may send first: "SSH-2.0-OpenSSH_8.2p1\r\n", "220 FTP 1.0 x9.4",
\* "nginx/1.18.0", "2.0 1.2.3", "Version: 5x", "version::", "srv v2.", "hi\nyou",
\* " \n", 52 times "x", and nothing
PeerData ==
    { <<"S", "S", "H", "-", "2", ".", "0", "-", "O", "p", "e", "n", "S", "S", "H",
        "_", "8", ".", "2", "p", "1", "\r", "\n">>,
      <<"2", "2", "0", " ", "F", "T", "P", " ", "1", ".", "0", " ", "x", "9", ".", "4">>,
      <<"n", "g", "i", "n", "x", "/", "1", ".", "1", "8", ".", "0">>,
      <<"2", ".", "0", " ", "1", ".", "2", ".", "3">>,
      <<"V", "e", "r", "s", "i", "o", "n", ":", " ", "5", "x">>,
      <<"v", "e", "r", "s", "i", "o", "n", ":", ":">>,
      <<"s", "r", "v", " ", "v", "2", ".">>,
      <<"h", "i", "\n", "y", "o", "u">>,
      <<" ", "\n">>,
      [i \in 1..(FirstLineMax + 2) |-> "x"],
      <<>> }

\* ports of each kind of banner grab, and two passive ones
DetectPorts == {22, 3306, 80, 8080, 8000, 8888, 443, 8443}

\* lines 78-84: _is_port_open closes its socket after connect_ex returned,
\* whatever it returned; a raising connect_ex goes to "except: return False"
is_port_open_closes(result) == result # "error"

\* lines 92-117: the socket of _grab_banner after one call on it.  A call that
\* succeeded leaves it in use for the next one, but the plain recv, which
\* sock.close() follows (112).  A plain call that raised goes to "except
\* Exception" (114), which does not close.  Under TLS the socket belongs to the
\* SSLSocket: a failed handshake closes it before raising, and the with block
\* (105) closes it on the return of line 108 and on an exception alike.
grab_banner_socket(name, tls, result) ==
    IF tls
    THEN (IF result = "ok" /\ name # "recv" THEN {"open"} ELSE {"closed"})
    ELSE IF result # "ok" THEN socket_after(FALSE)
    ELSE IF name = "recv" THEN socket_after(TRUE)
    ELSE {"open"}

InitDetect ==
    /\ ScanIdle /\ PoolIdle
    /\ port_in \in DetectPorts
    /\ cert \in IF port_in \in TlsPorts THEN Certificates ELSE {""}
    /\ banner = <<>> /\ service = "" /\ version = <<>> /\ wire = <<>>
    /\ dsock = [check |-> "none", grab |-> "none"]
    /\ dpc = "is_port_open"

\* lines 54-55, 75-84: connect_ex returns 0, returns an errno, or raises; a
\* port that is not open ends the call with None
IsPortOpen ==
    /\ dpc = "is_port_open"
    /\ \E result \in {"open", "closed", "error"} :
          /\ dpc' = IF result = "open" THEN "connect" ELSE "done"
          /\ \E left \in socket_after(is_port_open_closes(result)) :
                dsock' = [dsock EXCEPT !.check = left]
    /\ UNCHANGED <<port_in, banner, service, version, cert, wire, scanVars, poolVars>>

\* lines 92-99: the socket is created and connected; the port decides what
\* comes next; an exception leaves the banner empty
GrabConnect ==
    /\ dpc = "connect"
    /\ \E ok \in BOOLEAN :
          /\ wire' = Append(wire, Call("connect", FALSE, <<>>, IF ok THEN "ok" ELSE "error"))
          /\ \E left \in grab_banner_socket("connect", FALSE, IF ok THEN "ok" ELSE "error") :
                dsock' = [dsock EXCEPT !.grab = left]
          /\ dpc' = IF ~ok THEN "analyze"
                    ELSE IF port_in \in HttpPorts THEN "send"
                    ELSE IF port_in \in TlsPorts THEN "wrap_socket"
                    ELSE "recv"
    /\ UNCHANGED <<port_in, banner, service, version, cert, scanVars, poolVars>>

\* line 98: sock.send(b"GET / HTTP/1.1\r\nHost: " + target + b"\r\n\r\n")
GrabSend ==
    /\ dpc = "send"
    /\ \E ok \in BOOLEAN :
          /\ wire' = Append(wire, Call("send", FALSE, target, IF ok THEN "ok" ELSE "error"))
          /\ \E left \in grab_banner_socket("send", FALSE, IF ok THEN "ok" ELSE "error") :
                dsock' = [dsock EXCEPT !.grab = left]
          /\ dpc' = IF ok THEN "recv" ELSE "analyze"
    /\ UNCHANGED <<port_in, banner, service, version, cert, scanVars, poolVars>>

\* lines 101-105: context.wrap_socket performs the handshake
GrabWrapSocket ==
    /\ dpc = "wrap_socket"
    /\ \E net_ok \in BOOLEAN :
          LET result == IF ~net_ok THEN "error"
                        ELSE IF certificate_accepted(ssl_context, cert) THEN "ok"
                        ELSE "cert_rejected"
          IN /\ wire' = Append(wire, Call("wrap_socket", TRUE, target, result))
             /\ \E left \in grab_banner_socket("wrap_socket", TRUE, result) :
                   dsock' = [dsock EXCEPT !.grab = left]
             /\ dpc' = IF result = "ok" THEN "tls_send" ELSE "analyze"
    /\ UNCHANGED <<port_in, banner, service, version, cert, scanVars, poolVars>>

\* line 106: ssock.send of the same request
GrabTlsSend ==
    /\ dpc = "tls_send"
    /\ \E ok \in BOOLEAN :
          /\ wire' = Append(wire, Call("send", TRUE, target, IF ok THEN "ok" ELSE "error"))
          /\ \E left \in grab_banner_socket("send", TRUE, IF ok THEN "ok" ELSE "error") :
                dsock' = [dsock EXCEPT !.grab = left]
          /\ dpc' = IF ok THEN "tls_recv" ELSE "analyze"
    /\ UNCHANGED <<port_in, banner, service, version, cert, scanVars, poolVars>>

\* lines 107-108: ssock.recv; the decoded text is returned as it is
GrabTlsRecv ==
    /\ dpc = "tls_recv"
    /\ \/ \E data \in PeerData :
             /\ wire' = Append(wire, Call("recv", TRUE, <<>>, "ok"))
             /\ \E left \in grab_banner_socket("recv", TRUE, "ok") :
                   dsock' = [dsock EXCEPT !.grab = left]
             /\ banner' = data
       \/ /\ wire' = Append(wire, Call("recv", TRUE, <<>>, "error"))
          /\ \E left \in grab_banner_socket("recv", TRUE, "error") :
                dsock' = [dsock EXCEPT !.grab = left]
          /\ banner' = <<>>
    /\ dpc' = "analyze"
    /\ UNCHANGED <<port_in, service, version, cert, scanVars, poolVars>>

\* lines 111-117: sock.recv, sock.close, return banner.strip()
GrabRecv ==
    /\ dpc = "recv"
    /\ \/ \E data \in PeerData :
             /\ wire' = Append(wire, Call("recv", FALSE, <<>>, "ok"))
             /\ \E left \in grab_banner_socket("recv", FALSE, "ok") :
                   dsock' = [dsock EXCEPT !.grab = left]
             /\ banner' = strip(data)
       \/ /\ wire' = Append(wire, Call("recv", FALSE, <<>>, "error"))
          /\ \E left \in grab_banner_socket("recv", FALSE, "error") :
                dsock' = [dsock EXCEPT !.grab = left]
          /\ banner' = <<>>
    /\ dpc' = "analyze"
    /\ UNCHANGED <<port_in, service, version, cert, scanVars, poolVars>>

\* lines 61-69: the record is built from the banner
AnalyzeBanner ==
    /\ dpc = "analyze"
    /\ service' = identify_service(port_in, banner)
    /\ version' = extract_version(banner)
    /\ dpc' = "done"
    /\ UNCHANGED <<port_in, banner, cert, wire, dsock, scanVars, poolVars>>

NextDetect ==
    \/ IsPortOpen
    \/ GrabConnect
    \/ GrabSend
    \/ GrabWrapSocket
    \/ GrabTlsSend
    \/ GrabTlsRecv
    \/ GrabRecv
    \/ AnalyzeBanner

SpecDetect == InitDetect /\ [][NextDetect]_vars

(***************************************************************************)
(* Properties                                                              *)
(***************************************************************************)
NoRepeats(seq) == \A i, j \in 1..Len(seq) : seq[i] = seq[j] => i = j

\* C1: for every valid port specification the parser yields exactly the implied
\* set of ports: each implied port once, no other port, each within 1..65535.
C1_ParseYieldsImpliedSet ==
    (pc = "parsed" /\ ValidPortSpec(ports)) =>
        /\ exc = "none"
        /\ Range(tasks) = ImpliedPorts(ports)
        /\ NoRepeats(tasks)
        /\ \A k \in 1..Len(tasks) : tasks[k] >= 1 /\ tasks[k] <= 65535

\* C2: for every port specification with an invalid entry, scan fails with an
\* input error and no worker task or probe was started before that failure.
C2_InvalidSpecFailsBeforeProbes ==
    (op = "port" /\ ~ValidPortSpec(ports)) =>
        /\ nsub = 0
        /\ pc = "done" => returned.status = "ValueError"

\* C3: at most W probe functions execute at the same time, W = 50 for the port
\* scan and 20 for the subdomain brute force, also for batches larger than W.
C3_AtMostWRunning ==
    /\ poolKind = "port" => nRunning <= 50
    /\ poolKind = "sub" => nRunning <= 20

\* C3 witness: a batch larger than the limit, the pool full, calls still queued
C3_Witness ==
    /\ poolKind = "port" /\ nTasks > 50 /\ nRunning = 50
    /\ nSubmitted - nRunning - nFinished > 0

\* how many entries of `seq` satisfy Test
CountOf(seq, Test(_)) == Cardinality({k \in 1..Len(seq) : Test(seq[k])})

\* C4: the custom scan takes the outcome of each submitted task exactly once, and
\* its returned list holds exactly one entry per task whose probe returned an
\* open verdict and no entry for any other task, whatever the completion order.
C4_EachOutcomeOnce ==
    (op = "port" /\ backend = "custom") =>
        /\ \A i \in 1..Len(tasks) : consumed[i] <= 1
        /\ returned.status = "ok" =>
              /\ \A i \in 1..Len(tasks) : consumed[i] = 1
              /\ Len(returned.open_ports) =
                    Cardinality({i \in 1..Len(tasks) : fres[i] # <<>>})
              /\ \A i \in 1..Len(tasks) :
                    LET same == {j \in 1..Len(tasks) : fres[j] # <<>> /\ tasks[j] = tasks[i]}
                    IN CountOf(returned.open_ports, LAMBDA e : e.port = tasks[i])
                         = Cardinality(same)

\* C4 witness: a scan returned after two probes found an open port and one did not
C4_Witness ==
    /\ op = "port" /\ backend = "custom" /\ returned.status = "ok"
    /\ \E i, j, k \in 1..Len(tasks) :
          i # j /\ fres[i] # <<>> /\ fres[j] # <<>> /\ fres[k] = <<>>

\* C5: the open_ports list returned by scan is in ascending port order, whichever
\* backend produced it and in whatever order the probes completed.
C5_OpenPortsAscending ==
    (op = "port" /\ returned.status = "ok") =>
        \A k \in 1..(Len(returned.open_ports) - 1) :
            returned.open_ports[k].port <= returned.open_ports[k + 1].port

\* C6: neither the returned open-port list nor the returned subdomain list holds
\* two entries with the same identity key (port and protocol; name).
C6_NoDuplicateKeys ==
    returned.status = "ok" =>
        /\ \A i, j \in 1..Len(returned.open_ports) :
              ( /\ returned.open_ports[i].port = returned.open_ports[j].port
                /\ returned.open_ports[i].protocol = returned.open_ports[j].protocol )
              => i = j
        /\ \A i, j \in 1..Len(returned.subdomains) :
              returned.subdomains[i].subdomain = returned.subdomains[j].subdomain => i = j

\* C7: a UDP probe whose receive timed out never yields an open entry; every UDP
\* entry collected or returned belongs to a probe that received a response.
C7_UdpTimeoutNeverOpen ==
    op = "port" =>
        /\ \A i \in 1..Len(tasks) :
              (scan_type = "udp" /\ net[i] = "timeout") => fres[i] = <<>>
        /\ \A k \in 1..Len(open_ports) :
              open_ports[k].protocol = "udp" =>
                  CountOf(open_ports, LAMBDA e : e.port = open_ports[k].port)
                    <= Cardinality({i \in 1..Len(tasks) :
                           tasks[i] = open_ports[k].port /\ net[i] = "response"})
        /\ \A k \in 1..Len(returned.open_ports) :
              returned.open_ports[k].protocol = "udp" =>
                  \E i \in 1..Len(tasks) :
                      tasks[i] = returned.open_ports[k].port /\ net[i] = "response"

\* C7 witness: a UDP scan returned after one probe timed out and one was answered
C7_Witness ==
    /\ op = "port" /\ scan_type = "udp" /\ returned.status = "ok"
    /\ \E i, j \in 1..Len(tasks) : net[i] = "timeout" /\ net[j] = "response"
    /\ Len(returned.open_ports) = 1

\* C8: in both fan-outs the failure of one task's probe, whatever the error, is
\* absorbed as a non-finding: the batch raises nothing and every other task is
\* still executed and collected.
C8_ProbeFailureAbsorbed ==
    ( /\ op \in {"port", "sub"} /\ ~interrupted
      /\ \E i \in 1..Len(tasks) :
            net[i] \in {"refused", "timeout", "error", "gaierror", "UnicodeError"} )
    => /\ exc = "none"
       /\ pc \notin {"fanout", "shutdown"} =>
             \A i \in 1..Len(tasks) : fstate[i] = "finished" /\ consumed[i] = 1

\* C9: after a cancellation signal no task that had not started is dispatched,
\* and the results collected before the signal are returned to the caller.
C9_CancelStopsDispatch ==
    interrupted =>
        /\ late_start = {}
        /\ pc = "done" =>
              /\ Range(open_ports) \subseteq Range(returned.open_ports)
              /\ found_subdomains \subseteq
                   {returned.subdomains[k].subdomain : k \in 1..Len(returned.subdomains)}

\* the keywords in the order the identifier tests them, with their service names
Keywords ==
    << [kw |-> <<"s", "s", "h">>, name |-> "SSH"],
       [kw |-> <<"f", "t", "p">>, name |-> "FTP"],
       [kw |-> <<"s", "m", "t", "p">>, name |-> "SMTP"],
       [kw |-> <<"m", "a", "i", "l">>, name |-> "SMTP"],
       [kw |-> <<"h", "t", "t", "p">>, name |-> "HTTP"],
       [kw |-> <<"a", "p", "a", "c", "h", "e">>, name |-> "HTTP"],
       [kw |-> <<"n", "g", "i", "n", "x">>, name |-> "HTTP"],
       [kw |-> <<"m", "y", "s", "q", "l">>, name |-> "MySQL"],
       [kw |-> <<"p", "o", "s", "t", "g", "r", "e", "s", "q", "l">>, name |-> "PostgreSQL"],
       [kw |-> <<"p", "o", "s", "t", "g", "r", "e", "s">>, name |-> "PostgreSQL"],
       [kw |-> <<"r", "e", "d", "i", "s">>, name |-> "Redis"],
       [kw |-> <<"m", "o", "n", "g", "o", "d", "b">>, name |-> "MongoDB"],
       [kw |-> <<"m", "o", "n", "g", "o">>, name |-> "MongoDB"] >>

\* keyword k occurs in the text at some position, letter case ignored
OccursIgnoringCase(k, text) ==
    \E i \in 1..(Len(text) - Len(Keywords[k].kw) + 1) :
        \A j \in 1..Len(Keywords[k].kw) :
            lower(<<text[i + j - 1]>>) = <<Keywords[k].kw[j]>>

\* C10: identification returns the name of the first keyword, in the fixed order,
\* that occurs case-insensitively in the banner; with no keyword, the port-table
\* name of the port; otherwise "Unknown".  A keyword match wins over the table.
C10_KeywordThenPortThenUnknown ==
    service # "" =>
        LET hits == {k \in 1..Len(Keywords) : OccursIgnoringCase(k, banner)}
        IN IF hits # {}
           THEN service = Keywords[CHOOSE k \in hits : \A h \in hits : k <= h].name
           ELSE IF port_in \in {21, 22, 23, 25, 53, 80, 110, 143, 443, 445, 3306, 3389,
                                5432, 5900, 6379, 8080, 8443, 27017}
                THEN service = port_services(port_in) /\ service # "Unknown"
                ELSE service = "Unknown"

\* C10 witness: a banner keyword decided against what the port table says
C10_Witness ==
    /\ service = "MySQL" /\ port_in = 22
    /\ OccursIgnoringCase(8, banner)

\* C11: for every banner in which both "http" and the more specific keyword
\* "mysql" occur (and no other keyword), identification returns MySQL, never
\* HTTP: the generic keyword does not preempt the specific one.
C11_SpecificBeatsHttp ==
    ( /\ service # ""
      /\ {k \in 1..Len(Keywords) : OccursIgnoringCase(k, banner)} = {5, 8} )
    => service = "MySQL" /\ service # "HTTP"

\* the dotted pairs of a text, left to right, none overlapping another
RECURSIVE DottedPairs(_)
DottedPairs(text) ==
    LET starts == {i \in 1..Len(text) : dotted_end(text, i, 1) > 0}
    IN IF starts = {} THEN <<>>
       ELSE LET i == CHOOSE a \in starts : \A b \in starts : a <= b
                e == dotted_end(text, i, 1)
            IN <<SubSeq(text, i, e)>> \o DottedPairs(SubSeq(text, e + 1, Len(text)))

\* the banner "SSH-2.0-OpenSSH_8.2p1"
SshBanner ==
    <<"S", "S", "H", "-", "2", ".", "0", "-", "O", "p", "e", "n", "S", "S", "H",
      "_", "8", ".", "2", "p", "1">>

\* C12: the banner "SSH-2.0-OpenSSH_8.2p1" on port 22 yields service "SSH" and
\* version "8.2"; generally, for a banner holding a protocol-version dotted pair
\* before a product-version dotted pair and no dotted triple, the version is the
\* product's (second) dotted pair.
C12_ProductVersionExtracted ==
    (dpc = "done" /\ version # <<>>) =>
        /\ (port_in = 22 /\ banner = SshBanner) =>
               service = "SSH" /\ version = <<"8", ".", "2">>
        /\ (search_dotted(banner, 2) = <<>> /\ Len(DottedPairs(banner)) = 2) =>
               version = DottedPairs(banner)[2]

\* C13: merging the methods' candidate names is commutative and idempotent: in
\* whatever order the methods contribute and however their names are grouped,
\* the found-set is exactly the set of the names contributed so far (at the end
\* the union of the three sets), and a name already present changes nothing.
C13_MergeIsUnion ==
    op = "merge" =>
        /\ found_subdomains = UNION {{contrib[m][k] : k \in 1..taken[m]} : m \in Methods}
        /\ Cardinality(found_subdomains) <= Cardinality(MergeNames)

\* C13 witness: certificate transparency contributed before the brute force, the
\* same name twice, and the brute force is about to contribute that name again
C13_Witness ==
    /\ op = "merge"
    /\ taken["brute_force"] = 0 /\ Len(contrib["brute_force"]) = 2
    /\ taken["cert_transparency"] = 2
    /\ contrib["cert_transparency"][1] = contrib["cert_transparency"][2]
    /\ contrib["brute_force"][1] = contrib["cert_transparency"][1]
    /\ found_subdomains = {contrib["brute_force"][1]}

\* C14: discover returns one record per name of the merged set, in lexicographic
\* order of the name, each record carrying the looked-up address or the
\* unresolved marker 'N/A' (a name whose lookup fails is kept, not dropped), and
\* total_found is the number of records.
C14_OneRecordPerNameSorted ==
    (op = "sub" /\ pc = "done" /\ returned.status = "ok") =>
        LET recs == returned.subdomains
        IN /\ Len(recs) = Cardinality(found_subdomains)
           /\ {recs[k].subdomain : k \in 1..Len(recs)} = found_subdomains
           /\ \A k \in 1..(Len(recs) - 1) : str_lt(recs[k].subdomain, recs[k + 1].subdomain)
           /\ \A k \in 1..Len(recs) : recs[k].ip_address \in {"ip", "N/A"}
           /\ returned.total = Len(recs)

\* C14 witness: three names were merged from two methods; the returned list
\* holds an unresolved name between two resolved ones
C14_Witness ==
    /\ op = "sub" /\ pc = "done" /\ returned.status = "ok"
    /\ Len(returned.subdomains) = 3
    /\ returned.subdomains[1].ip_address = "ip"
    /\ returned.subdomains[2].ip_address = "N/A"
    /\ returned.subdomains[3].ip_address = "ip"
    /\ Len(tasks) > 0 /\ cert_run # <<>> /\ cert_run[1].how = "json"

\* the names the brute force left in the found-set
BruteFound == {fres[i][1] : i \in {j \in 1..Len(tasks) : fres[j] # <<>>}}

\* C15: a zone transfer that fails at one name server does not stop the attempt
\* at the remaining ones (the nodes of every server that answers are added); when
\* every name server refuses, the method adds no name and raises nothing, and the
\* names of the brute force and of certificate transparency are unchanged.
C15_RefusalDoesNotStopTransfer ==
    (op = "sub" /\ zone_run # <<>>) =>
        LET run == zone_run[1]
            refused == \A i \in 1..Len(run.xfr) : ~run.xfr[i].ok
        IN /\ exc = "none"
           /\ run.ns_ok =>
                 \A i \in 1..Len(run.xfr) :
                     run.xfr[i].ok =>
                         \A j \in 1..Len(run.xfr[i].nodes) :
                             full_domain(run.xfr[i].nodes[j]) \in found_subdomains
           /\ (refused /\ cert_run = <<>>) => found_subdomains = BruteFound
           /\ (refused /\ cert_run # <<>>) =>
                 found_subdomains = check_cert_transparency(BruteFound, cert_run[1])

\* C15 witness: the first name server refused, the second transferred the zone
C15_Witness ==
    /\ op = "sub" /\ pc = "cert_transparency" /\ zone_run # <<>>
    /\ zone_run[1].ns_ok /\ Len(zone_run[1].xfr) = 2
    /\ ~zone_run[1].xfr[1].ok /\ zone_run[1].xfr[2].ok
    /\ full_domain(<<"@">>) \in found_subdomains

\* C16: when the certificate-transparency lookup fails, at the network level or
\* while parsing the response at any entry, the found-set is exactly what it was
\* before the lookup started and no exception reaches discover.
C16_FailedLookupAddsNothing ==
    ( /\ op = "sub" /\ cert_run # <<>> /\ zone_run # <<>>
      /\ \/ cert_run[1].how \in {"RequestException", "JSONDecodeError"}
         \/ \E k \in 1..Len(cert_run[1].data) : cert_run[1].data[k].bad )
    => /\ exc = "none"
       /\ found_subdomains = attempt_zone_transfer(BruteFound, zone_run[1])

\* C17: when the target hostname does not resolve at the start of a port scan,
\* the scan fails hard before any per-port probe is started: no task is
\* submitted or run, and the caller gets a failure, not a normal result
\* (stated for valid port specifications, so that nothing else is at fault).
C17_UnresolvableTargetFailsFirst ==
    (op = "port" /\ ~target_resolves /\ ValidPortSpec(ports)) =>
        /\ nsub = 0 /\ Started = {}
        /\ pc = "done" => returned.status \notin {"ok", "pending"}

\* the positions of the calls named `name` on the connection
CallsOf(name) == {k \in 1..Len(wire) : wire[k].call = name}

\* C18: in a banner grab, on ports 80, 8080, 8000, 8888 the GET with Host set to
\* the target is sent before the first read; on ports 443 and 8443 nothing is
\* sent or read before the TLS handshake has completed, the handshake rejects
\* no certificate, and the GET follows it, before the read; on every other port
\* nothing is sent before the first read.
C18_GrabStepOrder ==
    /\ port_in \in {80, 8080, 8000, 8888} =>
          \A r \in CallsOf("recv") :
              \E g \in CallsOf("send") :
                  g < r /\ wire[g].result = "ok" /\ wire[g].host = target /\ ~wire[g].tls
    /\ port_in \in {443, 8443} =>
          /\ \A k \in CallsOf("send") \cup CallsOf("recv") :
                 /\ wire[k].tls
                 /\ \E h \in CallsOf("wrap_socket") : h < k /\ wire[h].result = "ok"
          /\ \A h \in CallsOf("wrap_socket") : wire[h].result # "cert_rejected"
          /\ \A r \in CallsOf("recv") :
                 \E g \in CallsOf("send") :
                     g < r /\ wire[g].result = "ok" /\ wire[g].host = target
    /\ port_in \notin {80, 8080, 8000, 8888, 443, 8443} =>
          \A g \in CallsOf("send") : \E r \in CallsOf("recv") : r < g

\* C18 witness: a grab on port 8443 from a server with a self-signed certificate
\* went through handshake, GET and read
C18_Witness ==
    /\ port_in = 8443 /\ cert = "self_signed" /\ dpc = "done"
    /\ Len(wire) = 4
    /\ wire[2].call = "wrap_socket" /\ wire[2].result = "ok"
    /\ wire[3].call = "send" /\ wire[4].call = "recv" /\ wire[4].result = "ok"
    /\ banner # <<>>

C20_ScanMethodNamesBackend ==
    (op = "port" /\ pc = "done" /\ returned.status = "ok") =>
        /\ returned.scan_method \in {"nmap", "custom"}
        /\ returned.scan_method = backend

\* C21: every name in the list discover returns lies under the target on a label
\* boundary (it ends with "." and the target) or is the target itself, whichever
\* method produced it; a certificate name that merely ends with the target's
\* text and the zone-apex node name never appear.
C21_NamesUnderTarget ==
    (op = "sub" /\ pc = "done" /\ returned.status = "ok") =>
        \A k \in 1..Len(returned.subdomains) :
            LET n == returned.subdomains[k].subdomain
            IN /\ n = target \/ endswith(n, <<".">> \o target)
               /\ n # <<"@", ".">> \o target


\* C22: every socket a probe opened is closed by the time the probe returns, on
\* every path (connected, refused, timed out, an error raised by connect, send,
\* receive or the handshake): once _is_port_open has returned its socket is not
\* open, and once _grab_banner has returned its socket is not open either
C22_NoSocketLeftOpen ==
    /\ dpc \in {"connect", "send", "wrap_socket", "tls_send", "tls_recv", "recv",
                "analyze", "done"} => dsock.check # "open"
    /\ dpc \in {"analyze", "done"} => dsock.grab # "open"

\* the same for _scan_port: no finished probe of a scan has left its socket open
C22_ScanPortSocketsClosed ==
    op = "port" => \A i \in 1..Len(fsock) : fstate[i] = "finished" => fsock[i] # "open"

====
